---- MODULE Spec2Model ----
(***************************************************************************)
(* XLEAP-SBS colour balance validator (core/validator.py) and the /check   *)
(* request handler (app.py).                                               *)
(*                                                                         *)
(* A text or an index is a sequence of one-character strings.  Every call  *)
(* outcome is a record: Return(v) or Raise(e); Pending marks a call that   *)
(* has not been made.  An f-string is a record of its template (fmt) and   *)
(* the values put in its holes (holes).                                    *)
(***************************************************************************)
EXTENDS Integers, Sequences, FiniteSets, TLC

\* ------------------------------------------------------------------ bounds
MaxTextLen == 4
MaxIndexes == 2
MaxLen == 2
MaxBases == 3
MaxPosition == 2

\* The characters the raw texts are drawn from: bases in both cases, a
\* symbol that is no base, and the separators / whitespace.
TextChars == {"A", "G", "c", "t", "N", " ", ",", "\t", "\n"}
\* The four nucleotides, and the symbols a direct caller may pass.
Bases == {"A", "C", "G", "T"}
Symbols == Bases \cup {"N", "c"}

\* ----------------------------------------------------------- call outcomes
Pending == [status |-> "pending"]
Return(v) == [status |-> "returned", value |-> v]
Raise(e) == [status |-> "raised", exc |-> e]
None == [none |-> TRUE]
Fmt(f, h) == [fmt |-> f, holes |-> h]

\* -------------------------------------------------------- Python built-ins
\* str.strip() removes leading and trailing whitespace.
Whitespace == {" ", "\t", "\n"}

RECURSIVE lstrip(_)
lstrip(s) ==
  IF s = <<>> THEN s
  ELSE IF Head(s) \in Whitespace THEN lstrip(Tail(s)) ELSE s

RECURSIVE rstrip(_)
rstrip(s) ==
  IF s = <<>> THEN s
  ELSE IF s[Len(s)] \in Whitespace THEN rstrip(SubSeq(s, 1, Len(s) - 1)) ELSE s

strip(s) == rstrip(lstrip(s))

\* sep in text
Contains(s, sep) == \E i \in 1..Len(s) : s[i] = sep

\* str.split(sep): cut at every occurrence of sep, empty pieces kept.
RECURSIVE split(_, _)
split(s, sep) ==
  IF ~Contains(s, sep) THEN <<s>>
  ELSE LET i == CHOOSE k \in 1..Len(s) :
                  s[k] = sep /\ \A j \in 1..(k - 1) : s[j] # sep
       IN <<SubSeq(s, 1, i - 1)>> \o split(SubSeq(s, i + 1, Len(s)), sep)

\* str.upper(), character by character.
upper_char(c) ==
  CASE c = "a" -> "A"
    [] c = "c" -> "C"
    [] c = "g" -> "G"
    [] c = "t" -> "T"
    [] c = "n" -> "N"
    [] OTHER -> c

upper(s) == [i \in 1..Len(s) |-> upper_char(s[i])]

\* ------------------------------------------------------------ parse_indexes
\* The separator tried first wins: newline, then comma, then tab.
\* Variant with the comma tried before the newline.
raw_indexes_comma_first(text) ==
  IF Contains(text, ",") THEN split(text, ",")
  ELSE IF Contains(text, "\n") THEN split(text, "\n")
  ELSE IF Contains(text, "\t") THEN split(text, "\t")
  ELSE <<text>>

raw_indexes(text) ==
  IF Contains(text, "\n") THEN split(text, "\n")
  ELSE IF Contains(text, ",") THEN split(text, ",")
  ELSE IF Contains(text, "\t") THEN split(text, "\t")
  ELSE <<text>>

\* all(base in 'ACGT' for base in cleaned)
all_acgt(cleaned) == \A k \in 1..Len(cleaned) : cleaned[k] \in Bases

\* idx.strip().upper()
\* Variant without the conversion to uppercase.
cleaned_no_upper(idx) == strip(idx)

cleaned_of(idx) == upper(strip(idx))

\* The for loop over raw_indexes, from element i on, with indexes so far.
RECURSIVE clean_and_validate(_, _, _)
clean_and_validate(raw, i, indexes_so_far) ==
  IF i > Len(raw) THEN indexes_so_far
  ELSE LET cleaned == cleaned_of(raw[i])
       IN IF cleaned = <<>> THEN clean_and_validate(raw, i + 1, indexes_so_far)
          ELSE IF all_acgt(cleaned)
               THEN clean_and_validate(raw, i + 1, Append(indexes_so_far, cleaned))
               ELSE clean_and_validate(raw, i + 1, indexes_so_far)

parse_indexes(text_in) ==
  LET text == strip(text_in)
  IN clean_and_validate(raw_indexes(text), 1, <<>>)

\* ------------------------------------------------------------ XLEAP_COLORS
XLEAP_COLORS ==
  ("A" :> [blue |-> TRUE, green |-> FALSE, label |-> "Blue only"]) @@
  ("C" :> [blue |-> TRUE, green |-> TRUE, label |-> "Both (dual)"]) @@
  ("G" :> [blue |-> FALSE, green |-> FALSE, label |-> "Dark (no signal)"]) @@
  ("T" :> [blue |-> FALSE, green |-> TRUE, label |-> "Green only"])

\* XLEAP_COLORS.get(base.upper(), {... 'label': 'Unknown'})
get_color_profile(b) ==
  IF upper_char(b) \in DOMAIN XLEAP_COLORS THEN XLEAP_COLORS[upper_char(b)]
  ELSE [blue |-> FALSE, green |-> FALSE, label |-> "Unknown"]

\* --------------------------------------------------- check_position_balance
Min(S) == CHOOSE x \in S : \A y \in S : x <= y

\* any(XLEAP_COLORS[b][channel] for b in bases): the scan stops at the first
\* base that has the channel; a base with no entry met before that raises.
any_channel(bases_in, channel) ==
  LET stop == {i \in 1..Len(bases_in) :
                 \/ bases_in[i] \notin DOMAIN XLEAP_COLORS
                 \/ XLEAP_COLORS[bases_in[i]][channel]}
  IN IF stop = {} THEN Return(FALSE)
     ELSE IF bases_in[Min(stop)] \notin DOMAIN XLEAP_COLORS THEN Raise("KeyError")
     ELSE Return(TRUE)

\* is_balanced = has_blue and has_green
\* Variant with "or" for "and".
is_balanced_either(has_blue, has_green) == has_blue \/ has_green

is_balanced_of(has_blue, has_green) == has_blue /\ has_green

\* The recommendation branches; position is 0-based.
\* Variant with the blue test ahead of the all-dark test.
recommendation_blue_first(pos, has_blue, has_green, is_balanced, unique_bases) ==
  IF ~is_balanced THEN
    IF ~has_blue
    THEN Fmt("Position {}: No blue signal. Add indexes with A or C.", <<pos + 1>>)
    ELSE IF ~has_blue /\ ~has_green
    THEN Fmt("Position {}: All bases are G (dark). Add indexes with A, C, or T.", <<pos + 1>>)
    ELSE IF ~has_green
    THEN Fmt("Position {}: No green signal. Add indexes with C or T.", <<pos + 1>>)
    ELSE None
  ELSE IF unique_bases < 2
  THEN Fmt("Position {}: Low diversity ({} unique base). Consider more varied indexes.",
           <<pos + 1, unique_bases>>)
  ELSE None

recommendation_of(pos, has_blue, has_green, is_balanced, unique_bases) ==
  IF ~is_balanced THEN
    IF ~has_blue /\ ~has_green
    THEN Fmt("Position {}: All bases are G (dark). Add indexes with A, C, or T.", <<pos + 1>>)
    ELSE IF ~has_blue
    THEN Fmt("Position {}: No blue signal. Add indexes with A or C.", <<pos + 1>>)
    ELSE IF ~has_green
    THEN Fmt("Position {}: No green signal. Add indexes with C or T.", <<pos + 1>>)
    ELSE None
  ELSE IF unique_bases < 2
  THEN Fmt("Position {}: Low diversity ({} unique base). Consider more varied indexes.",
           <<pos + 1, unique_bases>>)
  ELSE None

check_position_balance(pos, bases_in) ==
  LET blue == any_channel(bases_in, "blue")
      green == any_channel(bases_in, "green")
  IN IF blue.status = "raised" THEN blue
     ELSE IF green.status = "raised" THEN green
     ELSE LET has_blue == blue.value
              has_green == green.value
              unique_bases == Cardinality({bases_in[i] : i \in 1..Len(bases_in)})
              is_balanced == is_balanced_of(has_blue, has_green)
          IN Return([position |-> pos + 1,
                     bases |-> bases_in,
                     has_blue |-> has_blue,
                     has_green |-> has_green,
                     is_balanced |-> is_balanced,
                     unique_bases |-> unique_bases,
                     recommendation |->
                       recommendation_of(pos, has_blue, has_green, is_balanced, unique_bases)])

\* --------------------------------------------------------- validate_indexes
\* [idx[pos] for idx in indexes], pos 0-based: indexing past the end of a
\* string raises IndexError.
bases_at(idxs, pos) ==
  IF \E k \in 1..Len(idxs) : pos + 1 > Len(idxs[k]) THEN Raise("IndexError")
  ELSE Return([k \in 1..Len(idxs) |-> idxs[k][pos + 1]])

\* len(lengths) > 1
\* Variant with the threshold off by one.
length_mismatch_over_two(lengths) == Cardinality(lengths) > 2

length_mismatch(lengths) == Cardinality(lengths) > 1

\* if not result.is_balanced: failed_positions.append(result.position)
\* Variant appending the 0-based position.
append_failed_zero_based(failed_positions, res) ==
  IF ~res.is_balanced THEN Append(failed_positions, res.position - 1)
  ELSE failed_positions

append_failed(failed_positions, res) ==
  IF ~res.is_balanced THEN Append(failed_positions, res.position)
  ELSE failed_positions

\* if result.recommendation: warnings.append(result.recommendation)
append_warning(warnings, res) ==
  IF res.recommendation # None THEN Append(warnings, res.recommendation)
  ELSE warnings

SingleIndexWarning ==
  Fmt("Only 1 index provided. Color balance requires multiple pooled samples.", <<>>)

\* if len(indexes) < 2: warnings.insert(0, ...)
\* Variant appending the message instead of inserting it at the front.
additional_warnings_at_end(idxs, warnings) ==
  IF Len(idxs) < 2 THEN Append(warnings, SingleIndexWarning) ELSE warnings

additional_warnings(idxs, warnings) ==
  IF Len(idxs) < 2 THEN <<SingleIndexWarning>> \o warnings ELSE warnings

\* The loop over range(index_length), from position pos on.
RECURSIVE position_loop(_, _, _, _)
position_loop(idxs, index_length, pos, acc) ==
  IF pos >= index_length THEN Return(acc)
  ELSE LET bases_at_pos == bases_at(idxs, pos)
       IN IF bases_at_pos.status = "raised" THEN bases_at_pos
          ELSE LET res == check_position_balance(pos, bases_at_pos.value)
               IN IF res.status = "raised" THEN res
                  ELSE position_loop(idxs, index_length, pos + 1,
                         [positions |-> Append(acc.positions, res.value),
                          failed_positions |-> append_failed(acc.failed_positions, res.value),
                          warnings |-> append_warning(acc.warnings, res.value)])

summary_of(is_valid, warnings, failed_positions, index_length) ==
  IF is_valid THEN
    IF warnings # <<>>
    THEN Fmt("PASS with warnings. All {} positions are color-balanced.", <<index_length>>)
    ELSE Fmt("PASS. All {} positions are color-balanced.", <<index_length>>)
  ELSE Fmt("FAIL. {} of {} positions lack color balance.",
           <<Len(failed_positions), index_length>>)

validate_indexes(idxs) ==
  IF idxs = <<>> THEN
    Return([is_valid |-> FALSE,
            total_positions |-> 0,
            positions |-> <<>>,
            failed_positions |-> <<>>,
            warnings |-> <<Fmt("No indexes provided.", <<>>)>>,
            summary |-> Fmt("No indexes to validate.", <<>>)])
  ELSE LET lengths == {Len(idxs[k]) : k \in 1..Len(idxs)}
       IN IF length_mismatch(lengths) THEN
            Return([is_valid |-> FALSE,
                    total_positions |-> 0,
                    positions |-> <<>>,
                    failed_positions |-> <<>>,
                    warnings |->
                      <<Fmt("Indexes have different lengths: {}. All indexes must be the same length.",
                            <<lengths>>)>>,
                    summary |-> Fmt("Index length mismatch.", <<>>)])
          ELSE LET index_length == Len(idxs[1])
                   loop == position_loop(idxs, index_length, 0,
                             [positions |-> <<>>, failed_positions |-> <<>>, warnings |-> <<>>])
               IN IF loop.status = "raised" THEN loop
                  ELSE LET warnings == additional_warnings(idxs, loop.value.warnings)
                           failed_positions == loop.value.failed_positions
                           is_valid == Len(failed_positions) = 0
                       IN Return([is_valid |-> is_valid,
                                  total_positions |-> index_length,
                                  positions |-> loop.value.positions,
                                  failed_positions |-> failed_positions,
                                  warnings |-> warnings,
                                  summary |->
                                    summary_of(is_valid, warnings, failed_positions, index_length)])

\* indexes = parse_indexes(input_text), evaluated once, then
\* validate_indexes(indexes).
validate_from_text(text_in) ==
  CHOOSE r \in {validate_indexes(idxs) : idxs \in {parse_indexes(text_in)}} : TRUE

\* -------------------------------------------------- get_color_balance_table
\* sum(1 for b in bases if XLEAP_COLORS[b][channel]): every base is looked up.
channel_count(bases_in, channel) ==
  IF \E i \in 1..Len(bases_in) : bases_in[i] \notin DOMAIN XLEAP_COLORS
  THEN Raise("KeyError")
  ELSE Return(Cardinality({i \in 1..Len(bases_in) : XLEAP_COLORS[bases_in[i]][channel]}))

\* 'is_balanced': has_blue and has_green
\* Variant that looks at the blue channel only.
row_is_balanced_blue_only(has_blue, has_green) == has_blue

row_is_balanced(has_blue, has_green) == has_blue /\ has_green

table_row(pos, bases_in) ==
  LET blue_count == channel_count(bases_in, "blue")
      green_count == channel_count(bases_in, "green")
  IN IF blue_count.status = "raised" THEN blue_count
     ELSE IF green_count.status = "raised" THEN green_count
     ELSE LET has_blue == blue_count.value > 0
              has_green == green_count.value > 0
          IN Return([position |-> pos + 1,
                     bases |-> bases_in,
                     base_counts |->
                       [b \in Bases |-> Cardinality({i \in 1..Len(bases_in) : bases_in[i] = b})],
                     blue_count |-> blue_count.value,
                     green_count |-> green_count.value,
                     has_blue |-> has_blue,
                     has_green |-> has_green,
                     is_balanced |-> row_is_balanced(has_blue, has_green),
                     status |-> IF has_blue /\ has_green THEN "pass" ELSE "fail"])

\* The loop over range(index_length), from position pos on.
RECURSIVE table_loop(_, _, _, _)
table_loop(idxs, index_length, pos, table_so_far) ==
  IF pos >= index_length THEN Return(table_so_far)
  ELSE LET bases_in == bases_at(idxs, pos)
       IN IF bases_in.status = "raised" THEN bases_in
          ELSE LET row == table_row(pos, bases_in.value)
               IN IF row.status = "raised" THEN row
                  ELSE table_loop(idxs, index_length, pos + 1,
                                  Append(table_so_far, row.value))

get_color_balance_table(idxs) ==
  IF idxs = <<>> THEN Return(<<>>)
  ELSE table_loop(idxs, Len(idxs[1]), 0, <<>>)

\* ------------------------------------------------------------------- /check
\* The POST /check handler: the form text in, the response out, with the
\* values of its locals indexes, result and table.
check(form_text) ==
  LET index_text == strip(form_text)
      parsed == parse_indexes(index_text)
      validated == validate_from_text(index_text)
      built == CHOOSE r \in {get_color_balance_table(idxs) : idxs \in {parsed}} : TRUE
  IN IF index_text = <<>> THEN
       [indexes |-> <<>>, result |-> Pending, table |-> Pending,
        response |-> Return([redirect |-> "index",
                             flash |-> "Please enter at least one index sequence."])]
     ELSE IF parsed = <<>> THEN
       [indexes |-> parsed, result |-> Pending, table |-> Pending,
        response |-> Return([redirect |-> "index",
                             flash |-> "No valid index sequences found. Use only A, C, G, T characters."])]
     ELSE IF validated.status = "raised" THEN
       [indexes |-> parsed, result |-> validated, table |-> Pending, response |-> validated]
     ELSE IF built.status = "raised" THEN
       [indexes |-> parsed, result |-> validated, table |-> built, response |-> built]
     ELSE
       [indexes |-> parsed, result |-> validated, table |-> built,
        response |-> Return([render |-> "results.html"])]

\* ------------------------------------------------------------------- state
VARIABLES
  pc,               \* which call the caller is at
  input_text,       \* the raw text (parse_indexes, /check)
  indexes,          \* the list of index sequences
  position, bases,  \* the arguments of check_position_balance
  base,             \* the argument of get_color_profile
  result,           \* the outcome of validate_indexes
  table,            \* the outcome of get_color_balance_table
  position_result,  \* the outcome of check_position_balance
  profile,          \* the outcome of get_color_profile
  response          \* the outcome of the /check handler

vars == <<pc, input_text, indexes, position, bases, base, result, table,
          position_result, profile, response>>

\* All sequences over S of length at most n.
SeqsUpTo(S, n) == UNION {[1..k -> S] : k \in 0..n}

Texts == SeqsUpTo(TextChars, MaxTextLen)

\* The caller's inputs: a raw text, a list of indexes, the bases of one
\* position, or one symbol, over the alphabet given.
InitOver(alphabet) ==
  /\ result = Pending
  /\ table = Pending
  /\ position_result = Pending
  /\ profile = Pending
  /\ response = Pending
  /\ \/ /\ pc = "text"
        /\ input_text \in Texts
        /\ indexes = <<>> /\ position = 0 /\ bases = <<>> /\ base = "A"
     \/ /\ pc = "indexes"
        /\ indexes \in SeqsUpTo(SeqsUpTo(alphabet, MaxLen), MaxIndexes)
        /\ input_text = <<>> /\ position = 0 /\ bases = <<>> /\ base = "A"
     \/ /\ pc = "bases"
        /\ position \in 0..MaxPosition
        /\ bases \in SeqsUpTo(alphabet, MaxBases)
        /\ input_text = <<>> /\ indexes = <<>> /\ base = "A"
     \/ /\ pc = "base"
        /\ base \in Symbols \cup {"a", "g", "t"}
        /\ input_text = <<>> /\ indexes = <<>> /\ position = 0 /\ bases = <<>>

Init == InitOver(Bases)

InitAnySymbol == InitOver(Symbols)

\* indexes = parse_indexes(input_text)
ParseIndexes ==
  /\ pc = "text"
  /\ pc' = "parsed"
  /\ indexes' = parse_indexes(input_text)
  /\ UNCHANGED <<input_text, position, bases, base, result, table,
                 position_result, profile, response>>

\* POST /check with input_text in the form
Check ==
  /\ pc = "text"
  /\ pc' = "responded"
  /\ \E out \in {check(input_text)} :
        /\ indexes' = out.indexes
        /\ result' = out.result
        /\ table' = out.table
        /\ response' = out.response
  /\ UNCHANGED <<input_text, position, bases, base, position_result, profile>>

\* result = validate_indexes(indexes)
ValidateIndexes ==
  /\ pc = "indexes"
  /\ result = Pending
  /\ result' = validate_indexes(indexes)
  /\ UNCHANGED <<pc, input_text, indexes, position, bases, base, table,
                 position_result, profile, response>>

\* table = get_color_balance_table(indexes), after validate_indexes(indexes)
\* as in /check
GetColorBalanceTable ==
  /\ pc = "indexes"
  /\ result # Pending
  /\ table = Pending
  /\ table' = get_color_balance_table(indexes)
  /\ UNCHANGED <<pc, input_text, indexes, position, bases, base, result,
                 position_result, profile, response>>

\* position_result = check_position_balance(position, bases)
CheckPositionBalance ==
  /\ pc = "bases"
  /\ pc' = "analyzed"
  /\ position_result' = check_position_balance(position, bases)
  /\ UNCHANGED <<input_text, indexes, position, bases, base, result, table,
                 profile, response>>

\* profile = get_color_profile(base)
GetColorProfile ==
  /\ pc = "base"
  /\ pc' = "looked_up"
  /\ profile' = Return(get_color_profile(base))
  /\ UNCHANGED <<input_text, indexes, position, bases, base, result, table,
                 position_result, response>>

Next ==
  \/ ParseIndexes
  \/ Check
  \/ ValidateIndexes
  \/ GetColorBalanceTable
  \/ CheckPositionBalance
  \/ GetColorProfile

\* Calls on texts and on indexes over A, C, G, T.
Spec == Init /\ [][Next]_vars

\* Direct calls with any symbol in the indexes and bases.
SpecAnySymbol == InitAnySymbol /\ [][Next]_vars

\* =================================================================== claims
\* What the claims speak of, stated apart from the operators above.
SameLength(idxs) == \A i, j \in 1..Len(idxs) : Len(idxs[i]) = Len(idxs[j])

Has(t, c) == \E i \in 1..Len(t) : t[i] = c

Max(S) == CHOOSE x \in S : \A y \in S : x >= y

\* t without its leading and trailing whitespace.
Trimmed(t) ==
  LET solid == {i \in 1..Len(t) : t[i] \notin {" ", "\t", "\n"}}
  IN IF solid = {} THEN <<>> ELSE SubSeq(t, Min(solid), Max(solid))

LowerToUpper == [a |-> "A", c |-> "C", g |-> "G", t |-> "T"]

Uppercased(t) ==
  [i \in 1..Len(t) |-> IF t[i] \in DOMAIN LowerToUpper THEN LowerToUpper[t[i]] ELSE t[i]]

\* The pieces of t between the occurrences of sep, in order.
PiecesOf(t, sep) ==
  LET cuts == {0, Len(t) + 1} \cup {i \in 1..Len(t) : t[i] = sep}
      Nth(n) == CHOOSE x \in cuts : Cardinality({y \in cuts : y < x}) = n - 1
  IN [n \in 1..(Cardinality(cuts) - 1) |-> SubSeq(t, Nth(n) + 1, Nth(n + 1) - 1)]

Acceptable(tok) == tok # <<>> /\ \A k \in 1..Len(tok) : tok[k] \in {"A", "C", "G", "T"}

\* The trimmed, uppercased tokens that are acceptable, in the tokens' order.
AcceptedTokens(toks) ==
  SelectSeq([i \in 1..Len(toks) |-> Uppercased(Trimmed(toks[i]))], Acceptable)

\* C1: balance law.  For every position index and every non-empty list of
\* bases over A, C, G, T, check_position_balance returns has_blue iff some
\* base is A or C, has_green iff some base is C or T, and is_balanced iff both.
C1_BalanceLaw ==
  (pc = "analyzed" /\ bases # <<>>) =>
    /\ position_result.status = "returned"
    /\ LET some_blue == \E i \in 1..Len(bases) : bases[i] \in {"A", "C"}
           some_green == \E i \in 1..Len(bases) : bases[i] \in {"C", "T"}
       IN /\ position_result.value.has_blue = some_blue
          /\ position_result.value.has_green = some_green
          /\ position_result.value.is_balanced = (some_blue /\ some_green)

\* A position balanced by an A and a T, with no C, at a position index past 0.
C1_Witness ==
  /\ pc = "analyzed"
  /\ position = 1
  /\ Has(bases, "A") /\ Has(bases, "T") /\ ~Has(bases, "C")
  /\ position_result.status = "returned"
  /\ position_result.value.is_balanced

\* C2: table/validate consistency.  For every non-empty collection of
\* equal-length sequences, the table and validate_indexes give the same number
\* of positions, and row i agrees with positions[i] on is_balanced, has_blue,
\* has_green and the 1-based position.
C2_TableValidateConsistent ==
  (result # Pending /\ table # Pending /\ indexes # <<>> /\ SameLength(indexes)) =>
    /\ result.status = "returned"
    /\ table.status = "returned"
    /\ Len(table.value) = Len(result.value.positions)
    /\ \A i \in 1..Len(table.value) :
         /\ table.value[i].is_balanced = result.value.positions[i].is_balanced
         /\ table.value[i].has_blue = result.value.positions[i].has_blue
         /\ table.value[i].has_green = result.value.positions[i].has_green
         /\ table.value[i].position = i
         /\ result.value.positions[i].position = i

\* Two indexes of two positions: one position balanced, the other with a blue
\* signal only.
C2_Witness ==
  /\ pc = "indexes"
  /\ result # Pending /\ table # Pending
  /\ Len(indexes) = 2 /\ SameLength(indexes)
  /\ table.status = "returned" /\ Len(table.value) = 2
  /\ table.value[1].is_balanced
  /\ table.value[2].has_blue /\ ~table.value[2].is_balanced

\* C3: for every non-empty collection of equal-length sequences,
\* failed_positions is the strictly ascending list of exactly the 1-based
\* positions that are not balanced, and is_valid holds iff it is empty, that
\* is iff every position is balanced.
C3_FailedPositions ==
  (result # Pending /\ indexes # <<>> /\ SameLength(indexes)) =>
    /\ result.status = "returned"
    /\ LET fp == result.value.failed_positions
           ps == result.value.positions
       IN /\ \A i, j \in 1..Len(fp) : i < j => fp[i] < fp[j]
          /\ {fp[i] : i \in 1..Len(fp)} = {k \in 1..Len(ps) : ~ps[k].is_balanced}
          /\ result.value.is_valid = (fp = <<>>)
          /\ result.value.is_valid = (\A k \in 1..Len(ps) : ps[k].is_balanced)

\* Two indexes whose two positions both fail.
C3_Witness ==
  /\ result # Pending
  /\ Len(indexes) = 2 /\ SameLength(indexes)
  /\ result.status = "returned"
  /\ result.value.failed_positions = <<1, 2>>
  /\ ~result.value.is_valid

\* C4 (as stated): separator priority.  Every raw text that contains a newline
\* is split on newline only, never on comma or tab.
C4_NewlineInRawTextWins ==
  (pc = "parsed" /\ Has(input_text, "\n")) =>
    indexes = AcceptedTokens(PiecesOf(input_text, "\n"))

\* C4 (amended): separator priority over the text with its leading and
\* trailing whitespace removed.  If that text contains a newline it is split
\* on newline only; else if it contains a comma, on comma only; else if it
\* contains a tab, on tab only; else it is the one candidate token.
C4_SeparatorPriority ==
  pc = "parsed" =>
    LET text == Trimmed(input_text)
    IN /\ Has(text, "\n") => indexes = AcceptedTokens(PiecesOf(text, "\n"))
       /\ (~Has(text, "\n") /\ Has(text, ",")) =>
            indexes = AcceptedTokens(PiecesOf(text, ","))
       /\ (~Has(text, "\n") /\ ~Has(text, ",") /\ Has(text, "\t")) =>
            indexes = AcceptedTokens(PiecesOf(text, "\t"))
       /\ (~Has(text, "\n") /\ ~Has(text, ",") /\ ~Has(text, "\t")) =>
            indexes = AcceptedTokens(<<text>>)

\* A text with a comma on one line and an index on the next: split on the
\* newline, the line with the comma is dropped and the other line is kept.
C4_Witness ==
  /\ pc = "parsed"
  /\ Has(Trimmed(input_text), "\n")
  /\ Has(Trimmed(input_text), ",")
  /\ Len(indexes) = 1
  /\ Len(AcceptedTokens(PiecesOf(Trimmed(input_text), ","))) = 2

\* C5: for every raw text, the output of parse_indexes is exactly the
\* candidate tokens, trimmed and uppercased, that are non-empty and consist
\* only of A, C, G, T, in input order; so every output element is a non-empty
\* uppercase string over A, C, G, T, and the other tokens leave no trace.
C5_AcceptedTokensOnly ==
  pc = "parsed" =>
    /\ indexes = AcceptedTokens(raw_indexes(strip(input_text)))
    /\ \A i \in 1..Len(indexes) :
         /\ indexes[i] # <<>>
         /\ \A k \in 1..Len(indexes[i]) : indexes[i][k] \in {"A", "C", "G", "T"}

\* Three candidate tokens: a lowercase one accepted as uppercase, one that
\* is dropped, and an uppercase one accepted after it.
C5_Witness ==
  /\ pc = "parsed"
  /\ Len(raw_indexes(strip(input_text))) = 3
  /\ Has(input_text, "c")
  /\ indexes = <<(<<"C">>), (<<"A">>)>>

\* C6: structural failures are data.  validate_indexes on an empty collection
\* or on sequences of more than one length returns, and does not raise, a
\* result with is_valid false, total_positions 0, no positions, no failed
\* positions, exactly one warning, and the summary "No indexes to validate."
\* or "Index length mismatch."; in every other case total_positions is the
\* common length and the number of PositionResults.
C6_StructuralFailuresAreData ==
  result # Pending =>
    /\ result.status = "returned"
    /\ IF indexes = <<>> THEN
         /\ ~result.value.is_valid
         /\ result.value.total_positions = 0
         /\ result.value.positions = <<>>
         /\ result.value.failed_positions = <<>>
         /\ Len(result.value.warnings) = 1
         /\ result.value.summary = [fmt |-> "No indexes to validate.", holes |-> <<>>]
       ELSE IF ~SameLength(indexes) THEN
         /\ ~result.value.is_valid
         /\ result.value.total_positions = 0
         /\ result.value.positions = <<>>
         /\ result.value.failed_positions = <<>>
         /\ Len(result.value.warnings) = 1
         /\ result.value.summary = [fmt |-> "Index length mismatch.", holes |-> <<>>]
       ELSE
         /\ \A i \in 1..Len(indexes) : Len(indexes[i]) = result.value.total_positions
         /\ Len(result.value.positions) = result.value.total_positions

\* validate_indexes has returned on two sequences of different lengths, whose
\* first position alone would be balanced.
C6_Witness ==
  /\ pc = "indexes"
  /\ result # Pending
  /\ Len(indexes) = 2 /\ Len(indexes[1]) = 2 /\ Len(indexes[2]) = 1
  /\ indexes[1][1] = "A" /\ indexes[2][1] = "T"
  /\ result.status = "returned"
  /\ ~result.value.is_valid

\* C7: get_color_balance_table is guarded against out-of-range access.  For
\* every non-empty collection of sequences, the lengths differing or not, the
\* table builder returns and does not fail, also when called by /check.
C7_TableGuarded ==
  /\ (table # Pending /\ indexes # <<>>) => table.status = "returned"
  /\ pc = "responded" => response.status = "returned"

\* C8: warning order.  For every non-degenerate input the warnings are the
\* recommendations of the positions that have one, in ascending position
\* order, preceded, when there is exactly one sequence, by the single-index
\* message; with two or more sequences that message is absent; and is_valid
\* is decided by the positions alone.
C8_WarningOrder ==
  (result # Pending /\ indexes # <<>> /\ SameLength(indexes)) =>
    /\ result.status = "returned"
    /\ LET single == [fmt |-> "Only 1 index provided. Color balance requires multiple pooled samples.",
                      holes |-> <<>>]
           HasRecommendation(p) == p.recommendation # None
           advised == SelectSeq(result.value.positions, HasRecommendation)
           derived == [i \in 1..Len(advised) |-> advised[i].recommendation]
           ws == result.value.warnings
       IN /\ \A i, j \in 1..Len(advised) : i < j => advised[i].position < advised[j].position
          /\ Len(indexes) = 1 => ws = <<single>> \o derived
          /\ Len(indexes) >= 2 => (ws = derived /\ \A i \in 1..Len(ws) : ws[i] # single)
          /\ result.value.is_valid =
               (\A k \in 1..Len(result.value.positions) : result.value.positions[k].is_balanced)

\* A single sequence whose two bases are C: valid, with the single-index
\* message first and the two low-diversity recommendations after it.
C8_Witness ==
  /\ result # Pending
  /\ indexes = <<(<<"C", "C">>)>>
  /\ result.status = "returned"
  /\ result.value.is_valid
  /\ Len(result.value.warnings) = 3
  /\ result.value.warnings[1].holes = <<>>
  /\ result.value.warnings[2].holes = <<1, 1>>
  /\ result.value.warnings[3].holes = <<2, 1>>

\* C9: recommendation policy.  The first matching rule wins: neither channel
\* gives the "All bases are G (dark)" message, else no blue gives "No blue
\* signal", else no green gives "No green signal", else balanced with fewer
\* than 2 distinct bases gives "Low diversity", else none.  An unbalanced
\* position always has a recommendation, the low-diversity message comes only
\* with a balanced position, and every message names position index + 1.
C9_RecommendationPolicy ==
  pc = "analyzed" =>
    /\ position_result.status = "returned"
    /\ LET r == position_result.value
           rec == position_result.value.recommendation
           distinct == Cardinality({bases[i] : i \in 1..Len(bases)})
           dark == [fmt |-> "Position {}: All bases are G (dark). Add indexes with A, C, or T.",
                    holes |-> <<position + 1>>]
           no_blue == [fmt |-> "Position {}: No blue signal. Add indexes with A or C.",
                       holes |-> <<position + 1>>]
           no_green == [fmt |-> "Position {}: No green signal. Add indexes with C or T.",
                        holes |-> <<position + 1>>]
           low == [fmt |-> "Position {}: Low diversity ({} unique base). Consider more varied indexes.",
                   holes |-> <<position + 1, distinct>>]
       IN /\ rec = IF ~r.has_blue /\ ~r.has_green THEN dark
                   ELSE IF ~r.has_blue THEN no_blue
                   ELSE IF ~r.has_green THEN no_green
                   ELSE IF distinct < 2 THEN low
                   ELSE None
          /\ ~r.is_balanced => rec # None
          /\ rec = low => r.is_balanced
          /\ rec # None => rec.holes[1] = position + 1

\* Positions reached with the low-diversity message: all bases C, at an index
\* past 0.
C9_Witness ==
  /\ pc = "analyzed"
  /\ position = 2
  /\ bases = <<"C", "C">>
  /\ position_result.status = "returned"
  /\ position_result.value.is_balanced
  /\ position_result.value.recommendation # None
  /\ position_result.value.recommendation.holes = <<3, 1>>

\* C10: symbols outside A, C, G, T are handled per the channel lookup without
\* raising.  get_color_profile gives the both-false "Unknown" profile for such
\* a symbol and is case-insensitive for a, c, g, t; check_position_balance,
\* and validate_indexes on sequences holding such a symbol or a lowercase
\* base, return with has_blue and has_green as that lookup gives them.
C10_SymbolsHandled ==
  /\ pc = "looked_up" =>
       /\ profile.status = "returned"
       /\ base \notin {"A", "C", "G", "T", "a", "c", "g", "t"} =>
            /\ ~profile.value.blue /\ ~profile.value.green
            /\ profile.value.label = "Unknown"
       /\ base \in {"a", "c", "g", "t"} =>
            profile.value = get_color_profile(LowerToUpper[base])
  /\ pc = "analyzed" =>
       /\ position_result.status = "returned"
       /\ position_result.value.has_blue =
            (\E i \in 1..Len(bases) : get_color_profile(bases[i]).blue)
       /\ position_result.value.has_green =
            (\E i \in 1..Len(bases) : get_color_profile(bases[i]).green)
  /\ (pc = "indexes" /\ result # Pending) => result.status = "returned"
====
